---- MODULE Spec2Model ----
(***************************************************************************)
(* Model of StealthTabPoolScreenshotService                                *)
(* (src/services/screenshotService.js): the engine supervisor              *)
(* (initializeBrowser, _launchBrowser and its 'disconnected' handler), the *)
(* tab pool (getAvailableTab, createNewTab, closeTab), the request path    *)
(* (takeScreenshot), shutdown(), and the status the route handler          *)
(* (src/routes/screenshot.js) answers with.                                *)
(*                                                                         *)
(* JavaScript runs one task at a time: every action below is the code that *)
(* runs between two awaits (a task together with the promise continuations *)
(* it triggers).  The rendering engine (puppeteer) is the environment: an  *)
(* engine process can disconnect at any moment, a page can close           *)
(* out-of-band, and any operation on a page can fail.  An operation on a   *)
(* page of a disconnected engine, or on a closed page, always fails.       *)
(***************************************************************************)
EXTENDS Integers, Sequences, FiniteSets, TLC

\* ------------------------------------------------------------------ bounds
NumRequests == 3        \* request slots that run takeScreenshot concurrently
MaxRequests == 2        \* takeScreenshot calls over an execution of Spec
PoolRequests == 3       \* takeScreenshot calls over an execution of SpecPool
TimeoutTicks == 2       \* the 30 s acquisition timeout, in poll intervals
MaxOobCloses == 1       \* pages the engine closes out-of-band

\* ------------------------------------------------ configuration (scaled)
MAX_TABS == 1           \* process.env.MAX_TABS in Spec
PoolMaxTabs == 2        \* process.env.MAX_TABS in SpecPool
MaxRestarts == 1        \* this.maxBrowserRestarts (5 in the constructor)
SupervisorRestarts == 2 \* this.maxBrowserRestarts in SpecSupervisor
RetryBound == 3         \* the largest maxRetries given to retryWithBackoff
NumErrors == 2          \* the errors fn can reject with
NumValues == 2          \* the values fn can resolve with

Requests == 1..NumRequests
ShutdownCalls == 1..2   \* the SIGTERM and SIGINT handlers, in call order
TabIds == 1..(IF MaxRequests > PoolRequests THEN MaxRequests
              ELSE PoolRequests)
Blank == "about:blank"
Loaded == "page"

VARIABLES
    browser,               \* this.browser: 0 (null) or the engine handle
    browserLaunchPromise,  \* this.browserLaunchPromise: 0 (null) or a launch
    tabs,                  \* this.tabs: the Map's keys in insertion order
    maxTabs,               \* this.maxTabs
    maxBrowserRestarts,    \* this.maxBrowserRestarts
    tabIdCounter,          \* this.tabIdCounter
    isShuttingDown,        \* this.isShuttingDown
    browserRestartCount,   \* this.browserRestartCount
    stats,                 \* this.stats
    timers,                \* restart timers (setTimeout 2000) not yet fired
    pendingLaunches,       \* _launchBrowser calls in flight: [id, owner]
    liveEngines,           \* engine processes launched and still connected
    engineCounter,         \* engine processes launched so far
    pages,                 \* the engine's pages, by tab id
    oobCloses,             \* pages closed out-of-band so far
    req,                   \* each takeScreenshot call's position and locals
    sd,                    \* each shutdown() call's position and locals
    response,              \* status of the last reply of the route handler
    observeReplies,        \* whether errors and replies are recorded
    budgetSpent,           \* a disconnect arrived with every restart used
    lastUrlValid,          \* whether the URL of the latest call was valid
    retry                  \* a retryWithBackoff call: position and locals

vars == <<browser, browserLaunchPromise, tabs, maxTabs, maxBrowserRestarts,
          observeReplies, tabIdCounter, isShuttingDown,
          browserRestartCount, stats, timers, pendingLaunches, liveEngines,
          engineCounter, pages, oobCloses, req, sd, response, budgetSpent,
          lastUrlValid, retry>>

launchVars == <<browserLaunchPromise, pendingLaunches>>
engineVars == <<liveEngines, engineCounter>>
ghostVars == <<budgetSpent, lastUrlValid>>
\* what no step of the service changes: its configuration, and the call
\* of the retry helper, which the service does not use
configVars == <<maxTabs, maxBrowserRestarts, observeReplies, retry>>

\* ----------------------------------------------------------------- helpers
SeqToSet(s) == {s[i] : i \in 1..Len(s)}

MapDelete(s, t) == SelectSeq(s, LAMBDA x : x # t)

\* a page: the connected engine it lives in (0 once that engine has
\* disconnected), the URL it shows while open, and whether it is closed
NoPage == [engine |-> 0, url |-> Blank, closed |-> FALSE]

ClosedPage(p) == [engine |-> p.engine, url |-> Blank, closed |-> TRUE]

\* a takeScreenshot call: its position, its tab (tabInfo), the engine that
\* creates its tab, the launch it waits for, the time it has polled and,
\* in the catch, the error it rethrows and the size the pool had when the
\* error was caught
IdleReq == [pc |-> "idle", tab |-> 0, eng |-> 0, wait |-> 0, elapsed |-> 0,
            err |-> <<>>, sizeAtError |-> 0]

IdleSd == [pc |-> "idle", pending |-> {}, eng |-> 0]

\* a retryWithBackoff(fn, m) call before it starts: the loop index i, the
\* invocations of fn so far and their outcomes in order, lastError (0 is
\* undefined), the sleeps so far and the value returned (0 is none)
RetryCall(m) == [pc |-> "idle", maxRetries |-> m, i |-> 0, calls |-> 0,
                 log |-> <<>>, lastError |-> 0, sleeps |-> 0, result |-> 0]

\* browser.isConnected()
isConnected(e) == e \in liveEngines

\* a page operation succeeds only on an open page of a connected engine
Usable(t) == pages[t].engine \in liveEngines /\ ~pages[t].closed

\* tab.isClosed()
isClosed(t) == pages[t].closed

\* the constructor, run with MAX_TABS = n in the environment and allowing
\* `restarts` automatic restarts; `observe` tells whether the errors and
\* the replies of the route handler are recorded (they are in SpecPool; in
\* Spec `response` stays 0 and a caught error is not told from another,
\* which keeps the state space of Spec to the service's own state)
Constructed(n, restarts, observe) ==
    /\ observeReplies = observe
    /\ maxBrowserRestarts = restarts
    /\ browser = 0
    /\ browserLaunchPromise = 1
    /\ tabs = <<>>
    /\ maxTabs = n
    /\ tabIdCounter = 0
    /\ isShuttingDown = FALSE
    /\ browserRestartCount = 0
    /\ stats = [totalRequests |-> 0, successfulRequests |-> 0,
                failedRequests |-> 0, activeTabsCount |-> 0,
                browserRestarts |-> 0, tabsCreated |-> 0, tabsClosed |-> 0]
    /\ timers = 0
    /\ pendingLaunches = {[id |-> 1, owner |-> "constructor"]}
    /\ liveEngines = {}
    /\ engineCounter = 0
    /\ pages = [t \in TabIds |-> NoPage]
    /\ oobCloses = 0
    /\ req = [r \in Requests |-> IdleReq]
    /\ sd = [s \in ShutdownCalls |-> IdleSd]
    /\ response = 0
    /\ budgetSpent = FALSE
    /\ lastUrlValid = TRUE
    /\ retry = RetryCall(0)

Init == Constructed(MAX_TABS, MaxRestarts, FALSE)

\* ------------------------------------------- errors and the route handler
\* error messages, as their words
InvalidUrlError == <<"Invalid", "URL", "provided">>
NoTabsError == <<"No", "available", "tabs", "-", "maximum", "concurrent",
                 "screenshots", "reached">>
AccessDeniedError == <<"Access", "denied", "-", "possible", "bot",
                       "detection">>
\* puppeteer's errors: a navigation that timed out, a call on a closed
\* target or a disconnected browser, a launch that failed
NavigationTimeoutError == <<"Navigation", "timeout", "of", "30000", "ms",
                            "exceeded">>
TargetClosedError == <<"Protocol", "error", "Target", "closed">>
LaunchError == <<"Failed", "to", "launch", "the", "browser", "process">>
\* this.browser.newPage() with this.browser null
NullBrowserError == <<"Cannot", "read", "properties", "of", "null">>
\* a render step (evaluate, screenshot) that failed on an open page
RenderError == <<"Protocol", "error", "Execution", "context", "was",
                 "destroyed">>
\* sharp's error
EncoderError == <<"Input", "buffer", "contains", "unsupported", "image",
                  "format">>

\* String.prototype.includes, on words
includes(msg, words) ==
    \E i \in 1..Len(msg) :
        /\ i + Len(words) - 1 <= Len(msg)
        /\ SubSeq(msg, i, i + Len(words) - 1) = words

\* a route whose catch does not look for 'Invalid URL'
routeStatusNoUrlTest(msg) ==
    IF includes(msg, <<"Too", "many">>) THEN 429 ELSE 500

\* the status the route's catch answers with
routeStatus(msg) ==
    IF includes(msg, <<"Invalid", "URL">>) THEN 400
    ELSE IF includes(msg, <<"Too", "many">>) THEN 429
    ELSE 500

\* the route answers a takeScreenshot call that threw msg
Reject(msg) ==
    response' = IF observeReplies THEN routeStatus(msg) ELSE response

\* the error a catch holds while it awaits closeTab
Caught(msg) == IF observeReplies THEN msg ELSE <<>>

\* the route sends the image
Resolve == response' = IF observeReplies THEN 200 ELSE response

\* ------------------------------------------------------ engine supervisor
\* initializeBrowser without its single-flight check
NoLaunchGuard(p) == FALSE

\* initializeBrowser, line 54: a launch promise is set, so return it
LaunchGuard(p) == p # 0

\* the restart condition with the budget off by one
RestartAllowedOffByOne(shutting, count) ==
    ~shutting /\ count <= maxBrowserRestarts

\* the condition of the 'disconnected' handler for scheduling a restart
RestartAllowed(shutting, count) == ~shutting /\ count < maxBrowserRestarts

\* the 'disconnected' handler without this.tabs.clear()
TabsKept(ts) == ts

\* this.tabs.clear() in the 'disconnected' handler
TabsAfterDisconnect(ts) == <<>>

\* a name for the promise of a new launch: one that no pending launch, no
\* waiting caller and not this.browserLaunchPromise carries
NewPromise ==
    LET used == {l.id : l \in pendingLaunches} \cup {browserLaunchPromise}
                  \cup {req[r].wait : r \in Requests}
    IN CHOOSE i \in 1..(NumRequests + 3) :
         i \notin used /\ \A j \in 1..(i - 1) : j \in used

\* 'disconnected' events handled so far: every engine launched and no
\* longer connected
disconnectCount == engineCounter - Cardinality(liveEngines)

\* initializeBrowser called by `owner` with no launch promise to return:
\* this.browserLaunchPromise = this._launchBrowser()
StartLaunch(owner) ==
    /\ pendingLaunches' = pendingLaunches \cup
                            {[id |-> NewPromise, owner |-> owner]}
    /\ browserLaunchPromise' = NewPromise

\* the requests suspended in createNewTab on launch l
Waiters(l) == {r \in Requests : req[r].pc = "waitLaunch" /\ req[r].wait = l}

\* puppeteer.launch resolves: the handler is registered, the owner's
\* continuation sets this.browser, and every createNewTab call waiting on
\* this launch takes its tab id and calls this.browser.newPage()
LaunchSucceed(l) ==
    /\ l \in pendingLaunches
    /\ LET e == engineCounter + 1
           W == Waiters(l.id)
       IN /\ engineCounter' = e
          /\ liveEngines' = liveEngines \cup {e}
          /\ pendingLaunches' = pendingLaunches \ {l}
          /\ browser' = e
          /\ \E ord \in [W -> 1..Cardinality(W)] :
               /\ \A a, b \in W : a # b => ord[a] # ord[b]
               /\ req' = [r \in Requests |->
                            IF r \in W
                            THEN [req[r] EXCEPT !.pc = "creating",
                                                !.tab = tabIdCounter + ord[r],
                                                !.eng = e,
                                                !.wait = 0]
                            ELSE req[r]]
          /\ tabIdCounter' = tabIdCounter + Cardinality(W)
    /\ UNCHANGED <<browserLaunchPromise, tabs, isShuttingDown,
                   browserRestartCount, stats, timers, pages, oobCloses, sd,
                   ghostVars, response, configVars>>

\* a failed launch whose promise stays in this.browserLaunchPromise
LaunchFailKeepsMarker(l) ==
    /\ l \in pendingLaunches
    /\ LET W == Waiters(l.id)
       IN /\ pendingLaunches' = pendingLaunches \ {l}
          /\ req' = [r \in Requests |-> IF r \in W THEN IdleReq ELSE req[r]]
          /\ stats' = [stats EXCEPT !.failedRequests = @ + Cardinality(W)]
          /\ IF W # {} THEN Reject(LaunchError) ELSE UNCHANGED response
    /\ UNCHANGED <<browser, browserLaunchPromise, tabs, tabIdCounter,
                   isShuttingDown, browserRestartCount, timers, engineVars,
                   pages, oobCloses, sd, ghostVars, configVars>>

\* puppeteer.launch rejects: the owner's catch clears the promise and every
\* waiting takeScreenshot call fails before it has a tab
LaunchFail(l) ==
    /\ l \in pendingLaunches
    /\ LET W == Waiters(l.id)
       IN /\ pendingLaunches' = pendingLaunches \ {l}
          /\ browserLaunchPromise' = 0
          /\ req' = [r \in Requests |-> IF r \in W THEN IdleReq ELSE req[r]]
          /\ stats' = [stats EXCEPT !.failedRequests = @ + Cardinality(W)]
          /\ IF W # {} THEN Reject(LaunchError) ELSE UNCHANGED response
    /\ UNCHANGED <<browser, tabs, tabIdCounter, isShuttingDown,
                   browserRestartCount, timers, engineVars, pages, oobCloses,
                   sd, ghostVars, configVars>>

\* the 'disconnected' handler registered by _launchBrowser, run when engine
\* e exits (a crash, or browser.close() from shutdown)
Disconnected(e) ==
    /\ e \in liveEngines
    /\ liveEngines' = liveEngines \ {e}
    /\ browser' = 0
    /\ browserLaunchPromise' = 0
    /\ tabs' = TabsAfterDisconnect(tabs)
    /\ IF RestartAllowed(isShuttingDown, browserRestartCount)
       THEN /\ browserRestartCount' = browserRestartCount + 1
            /\ stats' = [stats EXCEPT !.browserRestarts = @ + 1]
            /\ timers' = timers + 1
       ELSE UNCHANGED <<browserRestartCount, stats, timers>>
    /\ budgetSpent' = (budgetSpent \/ (~isShuttingDown /\ timers = 0
                           /\ browserRestartCount >= maxBrowserRestarts))
    /\ pages' = [t \in TabIds |-> IF pages[t].engine = e
                                   THEN [pages[t] EXCEPT !.engine = 0]
                                   ELSE pages[t]]
    /\ UNCHANGED <<pendingLaunches, engineCounter, tabIdCounter,
                   isShuttingDown, oobCloses, req, sd, lastUrlValid,
                   response, configVars>>

\* the restart timer fires: this.initializeBrowser().catch(...)
RestartTimer ==
    /\ timers > 0
    /\ timers' = timers - 1
    /\ IF LaunchGuard(browserLaunchPromise)
       THEN UNCHANGED launchVars
       ELSE StartLaunch("timer")
    /\ UNCHANGED <<browser, tabs, tabIdCounter, isShuttingDown,
                   browserRestartCount, stats, engineVars, pages, oobCloses,
                   req, sd, ghostVars, response, configVars>>

\* a page of a connected engine closes out-of-band (renderer crash)
PageClosesOutOfBand(t) ==
    /\ oobCloses < MaxOobCloses
    /\ Usable(t)
    /\ pages' = [pages EXCEPT ![t] = ClosedPage(pages[t])]
    /\ oobCloses' = oobCloses + 1
    /\ UNCHANGED <<browser, launchVars, tabs, tabIdCounter, isShuttingDown,
                   browserRestartCount, stats, timers, engineVars, req, sd,
                   ghostVars, response, configVars>>

\* ------------------------------------------------------------ the tab pool
\* getAvailableTab, lines 229-234: the pool without its closed tabs
PurgeClosed(ts) == SelectSeq(ts, LAMBDA t : ~isClosed(t))

\* a capacity check that keeps one slot back
HasCapacityOffByOne(ts) == Len(ts) + 1 < maxTabs

\* getAvailableTab, lines 237 and 257: this.tabs.size < this.maxTabs
HasCapacity(ts) == Len(ts) < maxTabs

\* getAvailableTab, line 248: the test that makes a pooled tab idle
IsIdleTab(t) == ~isClosed(t) /\ pages[t].url = Blank

\* a search that finds no idle tab
NeverIdle(ts) == 0

\* getAvailableTab, lines 247-251: the first idle tab in Map order, or 0
FirstIdle(ts) ==
    IF \E i \in 1..Len(ts) : IsIdleTab(ts[i])
    THEN ts[CHOOSE i \in 1..Len(ts) :
                /\ IsIdleTab(ts[i])
                /\ \A j \in 1..(i - 1) : ~IsIdleTab(ts[j])]
    ELSE 0

\* a catch that does not count the failure
FailNoTabUncounted(r, st, msg) ==
    /\ req' = [req EXCEPT ![r] = IdleReq]
    /\ stats' = st
    /\ Reject(msg)

\* takeScreenshot's catch when no tab was obtained (tabInfo is null), and
\* the route's catch
FailNoTab(r, st, msg) ==
    /\ req' = [req EXCEPT ![r] = IdleReq]
    /\ stats' = [st EXCEPT !.failedRequests = @ + 1]
    /\ Reject(msg)

\* getAvailableTab returns {id, page} and takeScreenshot goes on to
\* setViewport, the random delay and page.goto
ReturnTab(r, t) ==
    /\ req' = [req EXCEPT ![r] = [IdleReq EXCEPT !.pc = "gotTab", !.tab = t]]
    /\ UNCHANGED response

\* createNewTab up to its first await that suspends, called with the stats
\* as updated so far by the caller
createNewTab(r, st) ==
    IF browser # 0 /\ isConnected(browser)
    THEN /\ tabIdCounter' = tabIdCounter + 1
         /\ req' = [req EXCEPT ![r] = [IdleReq EXCEPT !.pc = "creating",
                                         !.tab = tabIdCounter + 1,
                                         !.eng = browser]]
         /\ stats' = st
         /\ UNCHANGED <<launchVars, response>>
    ELSE IF ~LaunchGuard(browserLaunchPromise)
    THEN /\ StartLaunch("createNewTab")
         /\ req' = [req EXCEPT ![r] = [IdleReq EXCEPT !.pc = "waitLaunch",
                                         !.wait = NewPromise]]
         /\ stats' = st
         /\ UNCHANGED <<tabIdCounter, response>>
    ELSE IF \E l \in pendingLaunches : l.id = browserLaunchPromise
    THEN /\ req' = [req EXCEPT ![r] = [IdleReq EXCEPT !.pc = "waitLaunch",
                                         !.wait = browserLaunchPromise]]
         /\ stats' = st
         /\ UNCHANGED <<tabIdCounter, launchVars, response>>
    ELSE \* the promise is settled: ++tabIdCounter, this.browser.newPage()
         /\ tabIdCounter' = tabIdCounter + 1
         /\ IF browser = 0
            THEN FailNoTab(r, st, NullBrowserError)
            ELSE /\ req' = [req EXCEPT ![r] =
                              [IdleReq EXCEPT !.pc = "creating",
                                              !.tab = tabIdCounter + 1,
                                              !.eng = browser]]
                 /\ stats' = st
                 /\ UNCHANGED response
         /\ UNCHANGED launchVars

\* takeScreenshot from its start to the first suspension: count the
\* request, validate the URL, then getAvailableTab (purge, capacity check,
\* createNewTab or the first pass of the wait loop); `calls` bounds the
\* calls of an execution
takeScreenshot(r, valid, calls) ==
    /\ req[r].pc = "idle"
    /\ \A q \in 1..(r - 1) : req[q].pc # "idle"
    /\ stats.totalRequests < calls
    /\ lastUrlValid' = IF observeReplies THEN valid ELSE lastUrlValid
    /\ LET ts == PurgeClosed(tabs)
           st == [stats EXCEPT !.totalRequests = @ + 1]
           st1 == [st EXCEPT !.tabsClosed = @ + (Len(tabs) - Len(ts))]
       IN IF ~valid
          THEN /\ FailNoTab(r, st, InvalidUrlError)
               /\ UNCHANGED <<tabs, tabIdCounter, launchVars>>
          ELSE /\ tabs' = ts
               /\ IF HasCapacity(ts)
                  THEN createNewTab(r, st1)
                  ELSE /\ stats' = st1
                       /\ IF FirstIdle(ts) # 0
                          THEN ReturnTab(r, FirstIdle(ts))
                          ELSE /\ req' = [req EXCEPT ![r] =
                                            [IdleReq EXCEPT !.pc = "polling"]]
                               /\ UNCHANGED response
                       /\ UNCHANGED <<tabIdCounter, launchVars>>
    /\ UNCHANGED <<browser, isShuttingDown, browserRestartCount, timers,
                   engineVars, pages, oobCloses, sd, budgetSpent, configVars>>

\* a takeScreenshot call in an execution of Spec
StartRequest(r, valid) == takeScreenshot(r, valid, MaxRequests)

\* a wait loop that never gives up
NeverTimedOut(now) == FALSE

\* the condition of the wait loop, negated: Date.now() - startTime has
\* reached maxWaitTime
TimedOut(now) == now >= TimeoutTicks

\* the wait loop after its 100 ms sleep, d poll intervals later: re-check
\* the capacity, then the timeout, then look for an idle tab
PollWake(r, d) ==
    /\ req[r].pc = "polling"
    /\ LET now == IF req[r].elapsed + d > TimeoutTicks
                  THEN TimeoutTicks ELSE req[r].elapsed + d
       IN IF HasCapacity(tabs)
          THEN createNewTab(r, stats)
          ELSE /\ IF TimedOut(now)
                  THEN FailNoTab(r, stats, NoTabsError)
                  ELSE /\ stats' = stats
                       /\ IF FirstIdle(tabs) # 0
                          THEN ReturnTab(r, FirstIdle(tabs))
                          ELSE /\ req' = [req EXCEPT ![r].elapsed = now]
                               /\ UNCHANGED response
               /\ UNCHANGED <<tabIdCounter, launchVars>>
    /\ UNCHANGED <<browser, tabs, isShuttingDown, browserRestartCount, timers,
                   engineVars, pages, oobCloses, sd, ghostVars, configVars>>

\* createNewTab after newPage and applyStealthEnhancements resolved:
\* this.tabs.set(tabId, page), the counters, return {id, page}
CreateNewTabDone(r) ==
    /\ req[r].pc = "creating"
    /\ isConnected(req[r].eng)
    /\ pages' = [pages EXCEPT ![req[r].tab] =
                   [engine |-> req[r].eng, url |-> Blank, closed |-> FALSE]]
    /\ tabs' = Append(tabs, req[r].tab)
    /\ stats' = [stats EXCEPT !.tabsCreated = @ + 1,
                              !.activeTabsCount = Len(tabs) + 1]
    /\ req' = [req EXCEPT ![r] = [IdleReq EXCEPT !.pc = "gotTab",
                                                 !.tab = req[r].tab]]
    /\ UNCHANGED <<browser, launchVars, tabIdCounter, isShuttingDown,
                   browserRestartCount, timers, engineVars, oobCloses, sd,
                   ghostVars, response, configVars>>

\* a failed creation that gives its identifier back
CreateNewTabFailsReturnsId(r) ==
    /\ req[r].pc = "creating"
    /\ ~isConnected(req[r].eng)
    /\ FailNoTab(r, stats, TargetClosedError)
    /\ tabIdCounter' = tabIdCounter - 1
    /\ UNCHANGED <<browser, launchVars, tabs, isShuttingDown,
                   browserRestartCount, timers, engineVars, pages, oobCloses,
                   sd, ghostVars, configVars>>

\* newPage or a stealth step rejects because the engine is gone
CreateNewTabFails(r) ==
    /\ req[r].pc = "creating"
    /\ ~isConnected(req[r].eng)
    /\ FailNoTab(r, stats, TargetClosedError)
    /\ UNCHANGED <<browser, launchVars, tabs, tabIdCounter, isShuttingDown,
                   browserRestartCount, timers, engineVars, pages, oobCloses,
                   sd, ghostVars, configVars>>

\* closeTab(tabId) up to its await: a tab in the pool that is not closed
CloseTabCalls(ts, t) == t \in SeqToSet(ts) /\ ~isClosed(t)

\* page.goto(url) resolves
GotoDone(r) ==
    /\ req[r].pc = "gotTab"
    /\ Usable(req[r].tab)
    /\ pages' = [pages EXCEPT ![req[r].tab].url = Loaded]
    /\ req' = [req EXCEPT ![r].pc = "rendering"]
    /\ UNCHANGED <<browser, launchVars, tabs, tabIdCounter, isShuttingDown,
                   browserRestartCount, stats, timers, engineVars, oobCloses,
                   sd, ghostVars, response, configVars>>

\* the render steps and page.screenshot resolve (lines 547-606)
RenderDone(r) ==
    /\ req[r].pc = "rendering"
    /\ Usable(req[r].tab)
    /\ req' = [req EXCEPT ![r].pc = "releasing"]
    /\ UNCHANGED <<browser, launchVars, tabs, tabIdCounter, isShuttingDown,
                   browserRestartCount, stats, timers, engineVars, pages,
                   oobCloses, sd, ghostVars, response, configVars>>

\* a release that leaves the tab on the page it rendered
ReleaseSkipped(r) ==
    /\ req[r].pc = "releasing"
    /\ Usable(req[r].tab)
    /\ req' = [req EXCEPT ![r].pc = "encoding"]
    /\ UNCHANGED <<browser, launchVars, tabs, tabIdCounter, isShuttingDown,
                   browserRestartCount, stats, timers, engineVars, pages,
                   oobCloses, sd, ghostVars, response, configVars>>

\* the release, line 609: page.goto('about:blank') resolves
ReleaseDone(r) ==
    /\ req[r].pc = "releasing"
    /\ Usable(req[r].tab)
    /\ pages' = [pages EXCEPT ![req[r].tab].url = Blank]
    /\ req' = [req EXCEPT ![r].pc = "encoding"]
    /\ UNCHANGED <<browser, launchVars, tabs, tabIdCounter, isShuttingDown,
                   browserRestartCount, stats, timers, engineVars, oobCloses,
                   sd, ghostVars, response, configVars>>

\* sharp resolves: the success counters, the result is returned
EncodeDone(r) ==
    /\ req[r].pc = "encoding"
    /\ stats' = [stats EXCEPT !.successfulRequests = @ + 1]
    /\ req' = [req EXCEPT ![r] = IdleReq]
    /\ Resolve
    /\ UNCHANGED <<browser, launchVars, tabs, tabIdCounter, isShuttingDown,
                   browserRestartCount, timers, engineVars, pages, oobCloses,
                   sd, ghostVars, configVars>>

\* the ways the step that request r awaits can reject: the error and the
\* URL the tab shows afterwards.  The encoder does not touch the tab; a
\* call on a closed page or a disconnected engine is a protocol error; a
\* navigation times out before or after it committed, or is answered 403;
\* a render step fails on the loaded page
Failures(r) ==
    LET t == req[r].tab
    IN IF req[r].pc = "encoding"
       THEN {[msg |-> EncoderError, url |-> pages[t].url]}
       ELSE IF ~Usable(t)
       THEN {[msg |-> TargetClosedError, url |-> pages[t].url]}
       ELSE IF req[r].pc = "gotTab"
       THEN {[msg |-> NavigationTimeoutError, url |-> Blank],
             [msg |-> NavigationTimeoutError, url |-> Loaded],
             [msg |-> AccessDeniedError, url |-> Loaded]}
       ELSE {[msg |-> RenderError, url |-> pages[t].url]}

\* a step between the hand-out of the tab and the result rejects
\* (navigation error or timeout, status 403, protocol error, encoder
\* error); takeScreenshot's catch counts it and calls closeTab
OperationFails(r) ==
    /\ req[r].pc \in {"gotTab", "rendering", "releasing", "encoding"}
    /\ stats' = [stats EXCEPT !.failedRequests = @ + 1]
    /\ \E f \in Failures(r) :
         /\ pages' = [pages EXCEPT ![req[r].tab].url = f.url]
         /\ IF CloseTabCalls(tabs, req[r].tab)
            THEN /\ req' = [req EXCEPT ![r].pc = "closing",
                                       ![r].err = Caught(f.msg),
                                       ![r].sizeAtError =
                                           IF observeReplies
                                           THEN Len(tabs) ELSE 0]
                 /\ UNCHANGED response
            ELSE /\ req' = [req EXCEPT ![r] = IdleReq]
                 /\ Reject(f.msg)
    /\ UNCHANGED <<browser, launchVars, tabs, tabIdCounter, isShuttingDown,
                   browserRestartCount, timers, engineVars, oobCloses, sd,
                   ghostVars, configVars>>

\* closeTab after tab.close() resolved
CloseTabDone(r) ==
    /\ req[r].pc = "closing"
    /\ isConnected(pages[req[r].tab].engine)
    /\ pages' = [pages EXCEPT ![req[r].tab] = ClosedPage(pages[req[r].tab])]
    /\ tabs' = MapDelete(tabs, req[r].tab)
    /\ stats' = [stats EXCEPT !.tabsClosed = @ + 1,
                              !.activeTabsCount =
                                  Len(MapDelete(tabs, req[r].tab))]
    /\ req' = [req EXCEPT ![r] = IdleReq]
    /\ Reject(req[r].err)
    /\ UNCHANGED <<browser, launchVars, tabIdCounter, isShuttingDown,
                   browserRestartCount, timers, engineVars, oobCloses, sd,
                   ghostVars, configVars>>

\* a catch of closeTab that counts the tab as closed
CloseTabThrowsCounted(r) ==
    /\ req[r].pc = "closing"
    /\ ~Usable(req[r].tab)
    /\ tabs' = MapDelete(tabs, req[r].tab)
    /\ stats' = [stats EXCEPT !.tabsClosed = @ + 1]
    /\ req' = [req EXCEPT ![r] = IdleReq]
    /\ Reject(req[r].err)
    /\ UNCHANGED <<browser, launchVars, tabIdCounter, isShuttingDown,
                   browserRestartCount, timers, engineVars, pages,
                   oobCloses, sd, ghostVars, configVars>>

\* closeTab's catch: tab.close() rejected
CloseTabThrows(r) ==
    /\ req[r].pc = "closing"
    /\ ~Usable(req[r].tab)
    /\ tabs' = MapDelete(tabs, req[r].tab)
    /\ req' = [req EXCEPT ![r] = IdleReq]
    /\ Reject(req[r].err)
    /\ UNCHANGED <<browser, launchVars, tabIdCounter, isShuttingDown,
                   browserRestartCount, stats, timers, engineVars, pages,
                   oobCloses, sd, ghostVars, configVars>>

\* ---------------------------------------------------------------- shutdown
\* shutdown after Promise.all(closePromises): close the browser if one is
\* set and connected, else return
AfterTabsClosed(s, pend) ==
    IF pend # {}
    THEN sd' = [sd EXCEPT ![s] = [pc |-> "closingTabs", pending |-> pend,
                                  eng |-> 0]]
    ELSE IF browser # 0 /\ isConnected(browser)
    THEN sd' = [sd EXCEPT ![s] = [pc |-> "closingBrowser", pending |-> {},
                                  eng |-> browser]]
    ELSE sd' = [sd EXCEPT ![s] = [pc |-> "done", pending |-> {}, eng |-> 0]]

\* shutdown() called for the s-th time (by the SIGTERM or the SIGINT
\* handler): set the flag and call closeTab for every tab of the pool
ShutdownStart(s) ==
    /\ sd[s].pc = "idle"
    /\ \A c \in 1..(s - 1) : sd[c].pc # "idle"
    /\ isShuttingDown' = TRUE
    /\ AfterTabsClosed(s, {t \in SeqToSet(tabs) : CloseTabCalls(tabs, t)})
    /\ UNCHANGED <<browser, launchVars, tabs, tabIdCounter,
                   browserRestartCount, stats, timers, engineVars, pages,
                   oobCloses, req, ghostVars, response, configVars>>

\* one of shutdown's closeTab calls after tab.close() resolved
ShutdownCloseTabDone(s, t) ==
    /\ sd[s].pc = "closingTabs"
    /\ t \in sd[s].pending
    /\ isConnected(pages[t].engine)
    /\ pages' = [pages EXCEPT ![t] = ClosedPage(pages[t])]
    /\ tabs' = MapDelete(tabs, t)
    /\ stats' = [stats EXCEPT !.tabsClosed = @ + 1,
                              !.activeTabsCount = Len(MapDelete(tabs, t))]
    /\ AfterTabsClosed(s, sd[s].pending \ {t})
    /\ UNCHANGED <<browser, launchVars, tabIdCounter, isShuttingDown,
                   browserRestartCount, timers, engineVars, oobCloses, req,
                   ghostVars, response, configVars>>

\* one of shutdown's closeTab calls whose tab.close() rejected
ShutdownCloseTabThrows(s, t) ==
    /\ sd[s].pc = "closingTabs"
    /\ t \in sd[s].pending
    /\ ~Usable(t)
    /\ tabs' = MapDelete(tabs, t)
    /\ AfterTabsClosed(s, sd[s].pending \ {t})
    /\ UNCHANGED <<browser, launchVars, tabIdCounter, isShuttingDown,
                   browserRestartCount, stats, timers, engineVars, pages,
                   oobCloses, req, ghostVars, response, configVars>>

\* a shutdown that zeroes the request counters when it returns
ShutdownResetsStats(s) ==
    /\ sd[s].pc = "closingBrowser"
    /\ ~isConnected(sd[s].eng)
    /\ sd' = [sd EXCEPT ![s].pc = "done"]
    /\ stats' = [stats EXCEPT !.totalRequests = 0,
                              !.successfulRequests = 0,
                              !.failedRequests = 0]
    /\ UNCHANGED <<browser, launchVars, tabs, tabIdCounter, isShuttingDown,
                   browserRestartCount, timers, engineVars, pages,
                   oobCloses, req, ghostVars, response, configVars>>

\* browser.close() resolved (the engine has disconnected): shutdown returns
ShutdownBrowserClosed(s) ==
    /\ sd[s].pc = "closingBrowser"
    /\ ~isConnected(sd[s].eng)
    /\ sd' = [sd EXCEPT ![s].pc = "done"]
    /\ UNCHANGED <<browser, launchVars, tabs, tabIdCounter, isShuttingDown,
                   browserRestartCount, stats, timers, engineVars, pages,
                   oobCloses, req, ghostVars, response, configVars>>

\* getStats(): the fields the health endpoints read
getStats ==
    [totalRequests |-> stats.totalRequests,
     successfulRequests |-> stats.successfulRequests,
     failedRequests |-> stats.failedRequests,
     activeTabsCount |-> stats.activeTabsCount,
     browserRestarts |-> stats.browserRestarts,
     tabsCreated |-> stats.tabsCreated,
     tabsClosed |-> stats.tabsClosed,
     browserConnected |-> (browser # 0 /\ isConnected(browser))]

\* ------------------------------------------------------ the health check
\* src/routes/health.js: the tab usage that raises an issue, in percent
TAB_USAGE_THRESHOLD == 90

\* what a health check reads from the host (memory, CPU, uptime, heap):
\* whether a reading raises an issue and whether one of them is critical
HostReadings ==
    {h \in [issue : BOOLEAN, critical : BOOLEAN] : h.critical => h.issue}

\* a health check that does not look at browserConnected
getHealthDataNoBrowserCheck(h) ==
    LET tabIssue == getStats.activeTabsCount * 100
                       > TAB_USAGE_THRESHOLD * maxTabs
        tabCritical == tabIssue /\ getStats.activeTabsCount >= maxTabs
        critical == h.critical \/ tabCritical
    IN [status |-> IF ~(h.issue \/ tabIssue) THEN "healthy"
                   ELSE IF critical THEN "critical" ELSE "warning",
        critical |-> critical]

\* getHealthData() with the host readings h: the issues of the host, of
\* the tab usage (activeTabsCount / MAX_TABS) and of the engine connection
getHealthData(h) ==
    LET tabIssue == getStats.activeTabsCount * 100
                       > TAB_USAGE_THRESHOLD * maxTabs
        tabCritical == tabIssue /\ getStats.activeTabsCount >= maxTabs
        noBrowser == ~getStats.browserConnected
        critical == h.critical \/ tabCritical \/ noBrowser
    IN [status |-> IF ~(h.issue \/ tabIssue \/ noBrowser) THEN "healthy"
                   ELSE IF critical THEN "critical" ELSE "warning",
        critical |-> critical]

\* GET /health: the status code of the reply
healthStatusCode(h) == IF getHealthData(h).status = "healthy" THEN 200 ELSE 503

\* ------------------------------------------------------------------- steps
Next ==
    \/ \E l \in pendingLaunches : LaunchSucceed(l)
    \/ \E l \in pendingLaunches : LaunchFail(l)
    \/ \E e \in liveEngines : Disconnected(e)
    \/ RestartTimer
    \/ \E t \in TabIds : PageClosesOutOfBand(t)
    \/ \E r \in Requests, valid \in BOOLEAN : StartRequest(r, valid)
    \/ \E r \in Requests, d \in 1..TimeoutTicks : PollWake(r, d)
    \/ \E r \in Requests : CreateNewTabDone(r)
    \/ \E r \in Requests : CreateNewTabFails(r)
    \/ \E r \in Requests : GotoDone(r)
    \/ \E r \in Requests : RenderDone(r)
    \/ \E r \in Requests : ReleaseDone(r)
    \/ \E r \in Requests : EncodeDone(r)
    \/ \E r \in Requests : OperationFails(r)
    \/ \E r \in Requests : CloseTabDone(r)
    \/ \E r \in Requests : CloseTabThrows(r)
    \/ \E s \in ShutdownCalls : ShutdownStart(s)
    \/ \E s \in ShutdownCalls, t \in TabIds : ShutdownCloseTabDone(s, t)
    \/ \E s \in ShutdownCalls, t \in TabIds : ShutdownCloseTabThrows(s, t)
    \/ \E s \in ShutdownCalls : ShutdownBrowserClosed(s)

Spec == Init /\ [][Next]_vars

\* ---------------------------------------------- the pool under more load
\* the service constructed with MAX_TABS = PoolMaxTabs and serving
\* PoolRequests calls through the route handler, with no shutdown and no
\* out-of-band page close
InitPool == Constructed(PoolMaxTabs, MaxRestarts, TRUE)

PoolStartRequest(r, valid) == takeScreenshot(r, valid, PoolRequests)

NextPool ==
    \/ \E l \in pendingLaunches : LaunchSucceed(l)
    \/ \E l \in pendingLaunches : LaunchFail(l)
    \/ \E e \in liveEngines : Disconnected(e)
    \/ RestartTimer
    \/ \E r \in Requests, valid \in BOOLEAN : PoolStartRequest(r, valid)
    \/ \E r \in Requests, d \in 1..TimeoutTicks : PollWake(r, d)
    \/ \E r \in Requests : CreateNewTabDone(r)
    \/ \E r \in Requests : CreateNewTabFails(r)
    \/ \E r \in Requests : GotoDone(r)
    \/ \E r \in Requests : RenderDone(r)
    \/ \E r \in Requests : ReleaseDone(r)
    \/ \E r \in Requests : EncodeDone(r)
    \/ \E r \in Requests : OperationFails(r)
    \/ \E r \in Requests : CloseTabDone(r)
    \/ \E r \in Requests : CloseTabThrows(r)

SpecPool == InitPool /\ [][NextPool]_vars

\* the same service with errors and replies not recorded, and with the
\* poll timer of every waiting call firing in the end (setTimeout, 100 ms)
InitWait == Constructed(PoolMaxTabs, MaxRestarts, FALSE)

FairSpecWait ==
    /\ InitWait
    /\ [][NextPool]_vars
    /\ \A r \in Requests : WF_vars(\E d \in 1..TimeoutTicks : PollWake(r, d))

\* ------------------------------------------- the supervisor with a budget
\* the same service with a budget of SupervisorRestarts automatic restarts
InitSupervisor == Constructed(PoolMaxTabs, SupervisorRestarts, FALSE)

SpecSupervisor == InitSupervisor /\ [][NextPool]_vars

\* ------------------------------------------------------ the retry helper
\* retryWithBackoff(fn, maxRetries) of the helpers module, called with
\* maxRetries from -1 to RetryBound; fn resolves with a value or rejects
\* with an error at each invocation, as the environment chooses.  The
\* length of a sleep (baseDelay * 2^i plus a random part) is left out.
Errors == 1..NumErrors
Values == 1..NumValues

InitRetry ==
    /\ \E m \in -1..RetryBound : retry = RetryCall(m)
    /\ observeReplies = FALSE
    /\ maxTabs = MAX_TABS
    /\ maxBrowserRestarts = MaxRestarts
    /\ browser = 0
    /\ browserLaunchPromise = 0
    /\ tabs = <<>>
    /\ tabIdCounter = 0
    /\ isShuttingDown = FALSE
    /\ browserRestartCount = 0
    /\ stats = [totalRequests |-> 0, successfulRequests |-> 0,
                failedRequests |-> 0, activeTabsCount |-> 0,
                browserRestarts |-> 0, tabsCreated |-> 0, tabsClosed |-> 0]
    /\ timers = 0
    /\ pendingLaunches = {}
    /\ liveEngines = {}
    /\ engineCounter = 0
    /\ pages = [t \in TabIds |-> NoPage]
    /\ oobCloses = 0
    /\ req = [r \in Requests |-> IdleReq]
    /\ sd = [s \in ShutdownCalls |-> IdleSd]
    /\ response = 0
    /\ budgetSpent = FALSE
    /\ lastUrlValid = TRUE

serviceVars == <<browser, browserLaunchPromise, tabs, maxTabs,
                 maxBrowserRestarts, observeReplies, tabIdCounter,
                 isShuttingDown, browserRestartCount, stats, timers,
                 pendingLaunches, liveEngines, engineCounter, pages,
                 oobCloses, req, sd, response, budgetSpent, lastUrlValid>>

\* a loop that never takes an attempt for the last one
NeverLastAttempt(i, m) == FALSE

\* line 136: i === maxRetries
IsLastAttempt(i, m) == i = m

\* the loop condition, then `return await fn()` up to the await; when the
\* condition fails the loop is over and lastError is thrown
Attempt(rt, i) ==
    IF i <= rt.maxRetries
    THEN [rt EXCEPT !.pc = "calling", !.i = i, !.calls = @ + 1]
    ELSE [rt EXCEPT !.pc = "thrown", !.i = i]

\* retryWithBackoff is called
RetryStart ==
    /\ retry.pc = "idle"
    /\ retry' = Attempt(retry, 0)
    /\ UNCHANGED serviceVars

\* fn() resolves with v: retryWithBackoff returns v
FnResolves(v) ==
    /\ retry.pc = "calling"
    /\ retry' = [retry EXCEPT !.pc = "returned", !.result = v,
                               !.log = Append(@, [ok |-> TRUE, val |-> v])]
    /\ UNCHANGED serviceVars

\* fn() rejects with e: the catch keeps the error, then leaves the loop
\* and throws it, or sleeps
FnRejects(e) ==
    /\ retry.pc = "calling"
    /\ retry' = [retry EXCEPT
                    !.lastError = e,
                    !.log = Append(@, [ok |-> FALSE, val |-> e]),
                    !.pc = IF IsLastAttempt(retry.i, retry.maxRetries)
                           THEN "thrown" ELSE "sleeping",
                    !.sleeps = IF IsLastAttempt(retry.i, retry.maxRetries)
                               THEN @ ELSE @ + 1]
    /\ UNCHANGED serviceVars

\* sleep(delay) resolves: i++ and the next pass of the loop
SleepDone ==
    /\ retry.pc = "sleeping"
    /\ retry' = Attempt(retry, retry.i + 1)
    /\ UNCHANGED serviceVars

NextRetry ==
    \/ RetryStart
    \/ \E v \in Values : FnResolves(v)
    \/ \E e \in Errors : FnRejects(e)
    \/ SleepDone

SpecRetry == InitRetry /\ [][NextRetry]_vars

\* ------------------------------------------------------------------- types
TypeOK ==
    /\ browser \in 0..engineCounter
    /\ tabIdCounter \in TabIds \cup {0}
    /\ maxTabs \in {MAX_TABS, PoolMaxTabs}
    /\ maxBrowserRestarts \in {MaxRestarts, SupervisorRestarts}
    /\ browserRestartCount \in 0..maxBrowserRestarts
    /\ SeqToSet(tabs) \subseteq TabIds
    /\ isShuttingDown \in BOOLEAN
    /\ timers \in 0..maxBrowserRestarts
    /\ \A r \in Requests :
         req[r].pc \in {"idle", "waitLaunch", "creating", "polling",
                        "gotTab", "rendering", "releasing", "encoding",
                        "closing"}
    /\ response \in {0, 200, 400, 429, 500}
    /\ observeReplies \in BOOLEAN
    /\ lastUrlValid \in BOOLEAN
    /\ retry.pc \in {"idle", "calling", "sleeping", "returned", "thrown"}

\* ================================================================== claims
\* a request holds a tab from the hand-out by getAvailableTab until it has
\* navigated it back to about:blank or called closeTab for it
Holds(r, t) ==
    req[r].tab = t /\ req[r].pc \in {"gotTab", "rendering", "releasing"}

\* getAvailableTab returns a tab to request r in this step
HandOut(r) == req[r].pc # "gotTab" /\ req'[r].pc = "gotTab"

\* a 'disconnected' event is handled in this step
DisconnectStep == disconnectCount' = disconnectCount + 1

\* the launches started in this step
NewLaunches == pendingLaunches' \ pendingLaunches

\* C1: the pool never tracks more than maxTabs tabs, whatever the
\* interleaving of acquires, closeTab calls and engine disconnects.
C1_PoolWithinMaxTabs == Len(tabs) <= maxTabs

\* C2: no tab is held by two requests at the same time, from the hand-out
\* (including the window before the holder's first navigation, and tabs
\* just created) until the holder released or discarded it.
C2_NoTabHeldTwice ==
    \A r1, r2 \in Requests, t \in TabIds :
        (Holds(r1, t) /\ Holds(r2, t)) => r1 = r2

\* C3: every tab getAvailableTab hands out lives in an engine process that
\* is connected at the hand-out, so after a handled disconnect no call
\* returns a tab created on the dead engine process.
C3_NoDeadTabHandedOut ==
    [][\A r \in Requests :
          HandOut(r) => /\ pages'[req'[r].tab].engine \in liveEngines'
                        /\ ~pages'[req'[r].tab].closed]_vars

C3_Witness ==
    \E r \in Requests :
        /\ req[r].pc = "gotTab"
        /\ disconnectCount >= 1
        /\ pages[req[r].tab].engine \in liveEngines
        /\ pages[req[r].tab].engine >= 2

\* C4: at most one engine launch is in flight at any time: no
\* initializeBrowser call starts a launch while one is pending or while a
\* live engine exists.
C4_SingleFlightLaunch ==
    /\ [](Cardinality(pendingLaunches) <= 1)
    /\ [][(pendingLaunches # {} \/ liveEngines # {}) => NewLaunches = {}]_vars

C4_Witness ==
    \E r \in Requests, l \in pendingLaunches :
        /\ req[r].pc = "waitLaunch"
        /\ req[r].wait = l.id
        /\ l.owner = "timer"

\* C5: at most one engine process is live, it is the one this.browser
\* names, and every tab in the pool lives in it.
C5_OneLiveEngine ==
    /\ Cardinality(liveEngines) <= 1
    /\ liveEngines \subseteq {browser}
    /\ \A t \in SeqToSet(tabs) : pages[t].engine \in liveEngines

C5_Witness ==
    /\ timers > 0
    /\ engineCounter >= 2
    /\ liveEngines # {}
    /\ tabs # <<>>

\* C6: while the service is not shutting down, each of the first
\* maxBrowserRestarts disconnects schedules exactly one restart, and every
\* later disconnect schedules none and leaves getStats() reporting the
\* engine as not connected.
C6_BoundedRestarts ==
    [][(DisconnectStep /\ ~isShuttingDown) =>
          IF disconnectCount < maxBrowserRestarts
          THEN /\ timers' = timers + 1
               /\ browserRestartCount' = browserRestartCount + 1
          ELSE /\ timers' = timers
               /\ browserRestartCount' = browserRestartCount
               /\ ~getStats'.browserConnected]_vars

C6_Witness ==
    /\ ~isShuttingDown
    /\ disconnectCount = maxBrowserRestarts + 1
    /\ browserRestartCount = maxBrowserRestarts
    /\ timers = 0
    /\ ~getStats.browserConnected

C8_NoRestartAfterShutdown ==
    [][isShuttingDown =>
          /\ timers' <= timers
          /\ \A l \in NewLaunches : l.owner # "timer"]_vars

\* C9: once a shutdown() call has returned, the pool is empty and no engine
\* process is live, and it stays so.
C9_StoppedAfterShutdown ==
    (\E s \in ShutdownCalls : sd[s].pc = "done") =>
        (tabs = <<>> /\ liveEngines = {})

\* C10: two shutdown() calls close no tab twice: no tab has a tab.close()
\* pending from both calls.
C10_ShutdownClosesOnce ==
    \A s1, s2 \in ShutdownCalls :
        s1 # s2 => sd[s1].pending \cap sd[s2].pending = {}

\* ------------------------------------------------- claims about the pool
\* request r's takeScreenshot call starts in this step and does not fail
\* at once
AcquireStarts(r) ==
    /\ req[r].pc = "idle"
    /\ \A q \in 1..(r - 1) : req[q].pc # "idle"
    /\ stats'.totalRequests = stats.totalRequests + 1
    /\ stats'.failedRequests = stats.failedRequests

\* request r's failure has been handled in this step: its closeTab is over
Handled(r) == req[r].pc = "closing" /\ req'[r].pc = "idle"

\* tab t is in the pool, open and at about:blank, and no request holds it
\* or is closing it
IdleInPool(t) ==
    /\ t \in SeqToSet(tabs)
    /\ Usable(t)
    /\ pages[t].url = Blank
    /\ \A q \in Requests :
         req[q].tab = t
            => req[q].pc \notin {"gotTab", "rendering", "releasing", "closing"}

\* request q has just released tab t and is still encoding its image
JustReleased(q, t) ==
    req[q].pc = "encoding" /\ req[q].tab = t /\ IdleInPool(t)

\* C11: a tab on which a render step failed (navigation error or timeout,
\* status 403, protocol error) is not handed out by any later
\* getAvailableTab call.
C11_FailedTabNeverReturned ==
    [][\A r, q \in Requests :
          (/\ r # q
           /\ req[q].pc = "closing"
           /\ req[q].err \in {NavigationTimeoutError, AccessDeniedError,
                               RenderError, TargetClosedError})
          => ~(HandOut(r) /\ req'[r].tab = req[q].tab)]_vars

\* C12: when a request fails with a navigation timeout while the pool holds
\* exactly maxTabs tabs, then once its closeTab is over (the tab closed)
\* tabsClosed has been incremented and the pool holds fewer than maxTabs
\* tabs.
C12_TimeoutFreesCapacity ==
    [][\A r \in Requests :
          (/\ Handled(r)
           /\ req[r].err = NavigationTimeoutError
           /\ req[r].sizeAtError = maxTabs
           /\ Usable(req[r].tab))
          => /\ stats'.tabsClosed = stats.tabsClosed + 1
             /\ Len(tabs') < maxTabs]_vars

\* C13: the closeTab of a request that failed while encoding, after it had
\* released its tab, closes no tab that another request holds.
C13_FailureIsTabLocal ==
    [][\A a, b \in Requests :
          (/\ a # b
           /\ Handled(a)
           /\ req[a].err = EncoderError
           /\ pages'[req[a].tab].closed
           /\ ~pages[req[a].tab].closed)
          => ~Holds(b, req[a].tab)]_vars

\* C14: at a saturated pool with no waiter, the next getAvailableTab call
\* returns the tab that was just released.
C14_ReturnsReleasedTab ==
    [][\A r, q \in Requests, t \in TabIds :
          (/\ AcquireStarts(r)
           /\ Len(PurgeClosed(tabs)) = maxTabs
           /\ \A w \in Requests : req[w].pc # "polling"
           /\ JustReleased(q, t))
          => (req'[r].pc = "gotTab" /\ req'[r].tab = t)]_vars

\* C15: a call in the wait loop at a saturated pool does not wait forever:
\* it has left the loop when the timeout has passed, each wake-up advances
\* its clock or ends the wait, and when it gives up the call fails without
\* having created or taken a tab.
C15_WaitLoopGivesUp ==
    /\ [](\A r \in Requests :
            req[r].pc = "polling" => req[r].elapsed < TimeoutTicks)
    /\ [][\A r \in Requests :
            (req[r].pc = "polling" /\ req'[r] # req[r] /\ ~HasCapacity(tabs))
            => \/ /\ req'[r].pc = "polling"
                  /\ req'[r].elapsed > req[r].elapsed
               \/ /\ req'[r].pc = "gotTab"
                  /\ req'[r].tab \in SeqToSet(tabs)
                  /\ pages[req'[r].tab].url = Blank
               \/ /\ req'[r].pc = "idle"
                  /\ stats'.failedRequests = stats.failedRequests + 1
                  /\ stats'.tabsCreated = stats.tabsCreated
                  /\ UNCHANGED <<tabs, tabIdCounter, pages>>]_vars
    /\ \A r \in Requests :
          (req[r].pc = "polling") ~> (req[r].pc # "polling")

C15_Witness ==
    \E r \in Requests :
        /\ req[r].pc = "polling"
        /\ req[r].elapsed = TimeoutTicks - 1
        /\ Len(tabs) = maxTabs
        /\ \A t \in SeqToSet(tabs) : Usable(t) /\ pages[t].url = Loaded

\* C16: of the calls that start while the pool is still empty, at most
\* maxTabs go on to create a tab; the others wait.
C16_ThirdCallWaits ==
    (tabs = <<>> /\ stats.tabsCreated = 0)
        => Cardinality({r \in Requests :
                          req[r].pc \in {"waitLaunch", "creating"}})
              <= maxTabs

\* request r's tab is in use and its engine has disconnected
EngineLost(r) ==
    /\ req[r].pc \in {"gotTab", "rendering", "releasing"}
    /\ pages[req[r].tab].engine \notin liveEngines

\* C17: a request whose tab was in use when the engine disconnected fails,
\* is counted once in failedRequests and is answered as service
\* unavailable (503), not with the generic 500.
C17_DisconnectSurfaced ==
    [][\A r \in Requests :
          (EngineLost(r) /\ req'[r] # req[r])
          => /\ req'[r].pc = "idle"
             /\ stats'.failedRequests = stats.failedRequests + 1
             /\ response' = 503]_vars

\* C18: a call that gives up in the wait loop is answered 503.
C18_ExhaustedIs503 ==
    [][\A r \in Requests :
          (req[r].pc = "polling" /\ req'[r].pc = "idle" /\ ~HasCapacity(tabs))
          => response' = 503]_vars

\* C19: a takeScreenshot call with an invalid URL is answered 400, counts
\* once in totalRequests and once in failedRequests, and leaves the pool,
\* its counters, the engine and every other call as they were.
C19_InvalidUrlRejected ==
    [][(stats'.totalRequests = stats.totalRequests + 1 /\ ~lastUrlValid')
          => /\ response' = 400
             /\ stats' = [stats EXCEPT !.totalRequests = @ + 1,
                                       !.failedRequests = @ + 1]
             /\ UNCHANGED <<tabs, tabIdCounter, pages, req, browser,
                            launchVars, engineVars, timers,
                            browserRestartCount>>]_vars

C19_Witness ==
    /\ ~lastUrlValid
    /\ response = 400
    /\ tabs # <<>>
    /\ \E r \in Requests : req[r].pc = "rendering"

\* C20 as stated: totalRequests exceeds successfulRequests +
\* failedRequests by exactly the number of takeScreenshot calls in flight.
C20_BalanceInFlight ==
    stats.totalRequests - (stats.successfulRequests + stats.failedRequests)
        = Cardinality({r \in Requests : req[r].pc # "idle"})

\* C20 as amended: successfulRequests + failedRequests never exceeds
\* totalRequests, and the difference is the number of calls in flight that
\* have not reached their outcome: a failed call is counted when its catch
\* starts, before the closeTab it awaits.  The two sides are equal when no
\* call is in flight.
C20_BalanceUncounted ==
    /\ stats.successfulRequests + stats.failedRequests <= stats.totalRequests
    /\ stats.totalRequests
          - (stats.successfulRequests + stats.failedRequests)
         = Cardinality({r \in Requests : req[r].pc \notin {"idle", "closing"}})

C20_Witness ==
    /\ \A r \in Requests : req[r].pc = "idle"
    /\ stats.totalRequests = MaxRequests
    /\ stats.successfulRequests >= 1
    /\ stats.failedRequests >= 1

\* no tab creation and no closeTab call is in progress
PoolQuiet ==
    /\ \A r \in Requests :
         req[r].pc \notin {"waitLaunch", "creating", "closing"}
    /\ \A s \in ShutdownCalls : sd[s].pc # "closingTabs"

\* C21: every tab that leaves the pool is counted exactly once in
\* tabsClosed: whenever no tab creation or close is in progress,
\* tabsCreated - tabsClosed is the number of tabs in the pool.
C21_ClosedTabsCounted ==
    PoolQuiet => stats.tabsCreated - stats.tabsClosed = Len(tabs)

\* C22: the activeTabsCount that getStats() returns is the number of tabs
\* in the pool at the instant of the read.
C22_ActiveTabsCountIsPoolSize == getStats.activeTabsCount = Len(tabs)

\* C24: every unexpected engine disconnect (one that shutdown did not ask
\* for) increments a counter of this.stats, also when the restart budget is
\* already used up.
C24_DisconnectCounted ==
    [][(DisconnectStep /\ ~isShuttingDown)
          => \E f \in DOMAIN stats : stats'[f] = stats[f] + 1]_vars

\* C23: whenever no engine process is connected, getStats() reports
\* browserConnected = false and GET /health answers 503 with the status
\* 'critical', whatever the host readings; it never answers 'healthy'.
C23_DisconnectedIsCritical ==
    liveEngines = {}
        => /\ ~getStats.browserConnected
           /\ \A h \in HostReadings :
                /\ getHealthData(h).status = "critical"
                /\ getHealthData(h).critical
                /\ healthStatusCode(h) = 503

\* the restart budget is used up, a further disconnect has been handled,
\* nothing is relaunching and the host has nothing to report
C23_Witness ==
    /\ liveEngines = {}
    /\ budgetSpent
    /\ pendingLaunches = {}
    /\ stats.activeTabsCount = 0
    /\ healthStatusCode([issue |-> FALSE, critical |-> FALSE]) = 503

\* request r has rendered its page and awaits the release of a pooled tab
\* that has closed out-of-band (closeTab removes the tabs it closes)
ReleasesClosedTab(r) ==
    /\ req[r].pc = "releasing"
    /\ req[r].tab \in SeqToSet(tabs)
    /\ isClosed(req[r].tab)

\* C25: releasing a tab that has closed out-of-band does not raise: the
\* request goes on to its result without a failure counted, and the tab is
\* dropped from the pool and counted in tabsClosed.
C25_ReleaseOfClosedTabSucceeds ==
    [][\A r \in Requests :
          (ReleasesClosedTab(r) /\ req'[r] # req[r])
          => /\ req'[r].pc = "encoding"
             /\ stats'.failedRequests = stats.failedRequests
             /\ req[r].tab \notin SeqToSet(tabs')
             /\ stats'.tabsClosed = stats.tabsClosed + 1]_vars

\* the launch that a restart timer started fails in this step
RestartLaunchFails ==
    /\ engineCounter' = engineCounter
    /\ \E l \in pendingLaunches \ pendingLaunches' : l.owner = "timer"

\* C26: when the launch of an automatic restart fails while restarts remain
\* in the budget, the supervisor goes on: another restart is scheduled or
\* under way after the failure.
C26_RestartsGoOn ==
    [][(/\ RestartLaunchFails
        /\ ~isShuttingDown
        /\ browserRestartCount < maxBrowserRestarts)
          => \/ timers' > 0
             \/ \E l \in pendingLaunches' : l.owner = "timer"]_vars

\* request r's takeScreenshot call returns its result in this step
Completes(r) ==
    /\ req[r].pc = "encoding"
    /\ req'[r].pc = "idle"
    /\ stats'.successfulRequests = stats.successfulRequests + 1

\* request r takes a step of the successful path with the tab it was given
SucceedsOn(r) ==
    \/ req[r].pc = "gotTab" /\ req'[r].pc = "rendering"
    \/ req[r].pc = "rendering" /\ req'[r].pc = "releasing"
    \/ req[r].pc = "releasing" /\ req'[r].pc = "encoding"
    \/ Completes(r)

\* C27: when a takeScreenshot call completes successfully, the tab it used
\* is in the pool, open and at about:blank, and no step of the call from
\* the hand-out of the tab to the result has changed tabsClosed.
C27_TabIdleAfterSuccess ==
    [][\A r \in Requests :
          LET t == req[r].tab
          IN /\ Completes(r)
                => /\ t \in SeqToSet(tabs')
                   /\ pages'[t].engine \in liveEngines'
                   /\ ~pages'[t].closed
                   /\ pages'[t].url = Blank
             /\ SucceedsOn(r)
                => stats'.tabsClosed = stats.tabsClosed]_vars

\* C27, amended: the call releases its tab before it encodes the image.
\* The release leaves the tab in the pool, open and at about:blank; no
\* step of the successful path removes a tab or changes tabsClosed; and
\* when the call completes, its tab, if it is still in the pool, open and
\* neither held nor being closed by another request, is at about:blank.
C27_ReleasedBeforeEncoding ==
    [][\A r \in Requests :
          LET t == req[r].tab
          IN /\ (req[r].pc = "releasing" /\ req'[r].pc = "encoding")
                => /\ t \in SeqToSet(tabs')
                   /\ pages'[t].engine \in liveEngines'
                   /\ ~pages'[t].closed
                   /\ pages'[t].url = Blank
             /\ SucceedsOn(r)
                => /\ tabs' = tabs
                   /\ stats'.tabsClosed = stats.tabsClosed
                   /\ stats'.activeTabsCount = stats.activeTabsCount
             /\ (/\ Completes(r)
                 /\ t \in SeqToSet(tabs)
                 /\ Usable(t)
                 /\ \A q \in Requests \ {r} :
                      req[q].tab = t => req[q].pc = "encoding")
                => /\ pages' = pages
                   /\ pages[t].url = Blank]_vars

\* a call has completed and the tab it released is idle in the pool
C27_Witness ==
    /\ stats.successfulRequests > 0
    /\ stats.failedRequests = 0
    /\ \A r \in Requests : req[r].pc = "idle"
    /\ \E t \in SeqToSet(tabs) : IdleInPool(t)

\* request r's createNewTab call puts its tab into the pool in this step
Inserts(r) ==
    /\ req[r].pc = "creating"
    /\ tabs' = Append(tabs, req[r].tab)

\* C28: once a disconnect is handled the pool holds no tab of the dead
\* engine process: the disconnect empties the pool, the pool stays empty
\* while no engine is connected, a createNewTab call that was in flight at
\* the disconnect does not insert its tab afterwards, and the pool grows
\* only by the tab of a createNewTab call on the connected engine.
C28_NoTabOfDeadEngine ==
    /\ [](liveEngines = {} => tabs = <<>>)
    /\ [][/\ DisconnectStep => tabs' = <<>>
          /\ \A r \in Requests :
                (req[r].pc = "creating" /\ req[r].eng \notin liveEngines)
                => req[r].tab \notin SeqToSet(tabs')
          /\ Len(tabs') > Len(tabs)
                => \E r \in Requests :
                      /\ Inserts(r)
                      /\ req[r].eng \in liveEngines'
                      /\ pages'[req[r].tab].engine = req[r].eng
                      /\ stats'.tabsCreated = stats.tabsCreated + 1]_vars

\* a createNewTab call is still in flight on an engine that disconnected,
\* while the pool has a tab of the engine launched afterwards
C28_Witness ==
    \E r \in Requests :
        /\ req[r].pc = "creating"
        /\ req[r].eng \notin liveEngines
        /\ liveEngines # {}
        /\ tabs # <<>>

\* the wait loop of request r wakes up in this step
Wakes(r) == req[r].pc = "polling" /\ req'[r] # req[r]

\* a tab has been released to idle, or a discard has freed capacity
Freed == HasCapacity(tabs) \/ \E t \in SeqToSet(tabs) : IdleInPool(t)

\* C29: a call in the wait loop that wakes up after a tab was released to
\* idle or a discard freed capacity obtains a tab in that iteration (the
\* idle tab, or one it starts to create) and does not time out.
C29_WaiterGetsFreedTab ==
    [][\A r \in Requests :
          (Wakes(r) /\ Freed)
          => req'[r].pc \in {"gotTab", "creating", "waitLaunch"}]_vars

\* C29, amended: a wake-up that finds capacity starts to create a tab,
\* whatever the clock; a wake-up that finds the pool full and a tab
\* released to idle is handed the first idle tab if it comes before the
\* timeout has elapsed, and otherwise fails the call, counted in
\* failedRequests, with the pool unchanged.
C29_WaiterGetsTabBeforeTimeout ==
    [][\A r \in Requests, d \in 1..TimeoutTicks :
          (PollWake(r, d) /\ Freed)
          => IF HasCapacity(tabs)
             THEN req'[r].pc \in {"creating", "waitLaunch"}
             ELSE IF req[r].elapsed + d < TimeoutTicks
             THEN /\ req'[r].pc = "gotTab"
                  /\ req'[r].tab = FirstIdle(tabs)
                  /\ stats' = stats
             ELSE /\ req'[r].pc = "idle"
                  /\ stats'.failedRequests = stats.failedRequests + 1
                  /\ tabs' = tabs]_vars

\* one call waits at a full pool in its last poll interval while a tab
\* has been released to idle
C29_Witness ==
    \E r \in Requests :
        /\ req[r].pc = "polling"
        /\ req[r].elapsed = TimeoutTicks - 1
        /\ \A q \in Requests \ {r} : req[q].pc # "polling"
        /\ ~HasCapacity(tabs)
        /\ \E t \in SeqToSet(tabs) : IdleInPool(t)

\* a pooled tab has closed out-of-band, and without the closed tabs the
\* pool is below maxTabs
SlotFreedOutOfBand ==
    /\ \E t \in SeqToSet(tabs) : isClosed(t)
    /\ HasCapacity(PurgeClosed(tabs))

\* C30: a call in the wait loop that wakes up after a pooled tab closed
\* out-of-band sees the freed slot and starts to create a tab, with no
\* other getAvailableTab call needed.
C30_WaiterSeesOutOfBandClose ==
    [][\A r \in Requests :
          (Wakes(r) /\ SlotFreedOutOfBand)
          => req'[r].pc \in {"creating", "waitLaunch"}]_vars

\* the requests whose createNewTab call takes its identifier in this step
TakesId(r) == req[r].pc # "creating" /\ req'[r].pc = "creating"

\* the identifiers in use: those of the pool and those the calls carry
IdsInUse == (SeqToSet(tabs) \cup {req[r].tab : r \in Requests}) \ {0}

\* C31: tab identifiers are strictly increasing in the order in which
\* createNewTab takes them and are never reused, across engine restarts and
\* after creations that fail once the identifier is taken; no two tabs of
\* the pool share an identifier.
C31_TabIdsIncrease ==
    /\ [](/\ IdsInUse \subseteq 1..tabIdCounter
          /\ Cardinality(SeqToSet(tabs)) = Len(tabs)
          /\ \A r \in Requests :
                req[r].pc = "creating" => req[r].tab \notin SeqToSet(tabs)
          /\ \A r, q \in Requests :
                (r # q /\ req[r].pc = "creating" /\ req[q].pc = "creating")
                => req[r].tab # req[q].tab)
    /\ [][/\ tabIdCounter' >= tabIdCounter
          /\ \A r \in Requests :
                TakesId(r) => /\ req'[r].tab > tabIdCounter
                              /\ req'[r].tab <= tabIdCounter'
          /\ \A r \in Requests :
                Inserts(r) => req[r].tab \notin SeqToSet(tabs)]_vars

\* a creation failed after its identifier was taken, the engine has been
\* replaced, and the pool holds a tab with a later identifier
C31_Witness ==
    /\ \A r \in Requests : req[r].pc \notin {"creating", "waitLaunch"}
    /\ stats.tabsCreated < tabIdCounter
    /\ disconnectCount >= 1
    /\ \E t \in SeqToSet(tabs) : t = tabIdCounter /\ Usable(t)

\* request r has a tab that an engine disconnect purged from the pool
HasPurgedTab(r) ==
    /\ req[r].pc \in {"gotTab", "rendering", "releasing", "encoding",
                      "closing"}
    /\ req[r].tab \notin SeqToSet(tabs)
    /\ pages[req[r].tab].engine \notin liveEngines
    /\ ~pages[req[r].tab].closed

\* request r's catch discards its tab in this step: the catch starts, or
\* the closeTab it awaited is over
Discards(r) ==
    \/ stats'.failedRequests = stats.failedRequests + 1 /\ req'[r] # req[r]
    \/ req[r].pc = "closing" /\ req'[r].pc = "idle"

\* C32: the discard by a request whose tab an engine disconnect has purged
\* leaves the pool as it is: no tab is removed or closed, and tabsClosed
\* and activeTabsCount do not change.
C32_DiscardAfterPurgeIsNoOp ==
    [][\A r \in Requests :
          (HasPurgedTab(r) /\ Discards(r))
          => /\ req'[r].pc = "idle"
             /\ tabs' = tabs
             /\ \A t \in SeqToSet(tabs) : pages'[t] = pages[t]
             /\ stats'.tabsClosed = stats.tabsClosed
             /\ stats'.activeTabsCount = stats.activeTabsCount]_vars

\* a request still has the tab that a disconnect purged while the pool
\* holds a tab of the engine launched afterwards
C32_Witness ==
    \E r \in Requests :
        /\ HasPurgedTab(r)
        /\ req[r].pc \in {"rendering", "closing"}
        /\ \E t \in SeqToSet(tabs) : Usable(t)

\* no takeScreenshot call is in flight
NoCallInFlight == \A r \in Requests : req[r].pc = "idle"

\* C33: whenever no takeScreenshot call is in flight, every tab of the
\* pool is idle: open, in the connected engine and at about:blank.
C33_NoTabLeftInUse ==
    NoCallInFlight
        => \A t \in SeqToSet(tabs) : Usable(t) /\ pages[t].url = Blank

\* C33, amended: whenever no takeScreenshot call is in flight, every tab
\* of the pool lives in the connected engine and is at about:blank or has
\* closed out-of-band; a call that starts then purges the closed tabs and
\* is handed a tab or starts to create one, without waiting.
C33_IdleOrClosedWhenQuiet ==
    /\ [](NoCallInFlight
            => \A t \in SeqToSet(tabs) :
                  /\ pages[t].engine \in liveEngines
                  /\ pages[t].closed \/ pages[t].url = Blank)
    /\ [][\A r \in Requests :
            (NoCallInFlight /\ AcquireStarts(r))
            => /\ req'[r].pc \in {"gotTab", "creating", "waitLaunch"}
               /\ tabs' = PurgeClosed(tabs)
               /\ req'[r].pc = "gotTab" => IdleInPool(req'[r].tab)]_vars

\* calls have come and gone, none is in flight, and the pool holds an idle
\* tab next to none in use
C33_Witness ==
    /\ NoCallInFlight
    /\ stats.successfulRequests > 0
    /\ stats.failedRequests > 0
    /\ tabs # <<>>
    /\ \A t \in SeqToSet(tabs) : IdleInPool(t)

\* getAvailableTab returns to request r a tab that was already in the pool
ReturnsExisting(r) == HandOut(r) /\ req[r].pc # "creating"

\* C34: a getAvailableTab call that finds fewer than maxTabs tabs in the
\* pool (after its purge, or at a wake-up of its wait loop) calls
\* createNewTab, also when the pool has an idle tab; a tab that is already
\* in the pool is returned only when the pool is at capacity.
C34_CreatesBelowCapacity ==
    [][\A r \in Requests :
          /\ (AcquireStarts(r) /\ Len(PurgeClosed(tabs)) < maxTabs)
                => req'[r].pc \in {"creating", "waitLaunch"}
          /\ (Wakes(r) /\ Len(tabs) < maxTabs)
                => \/ req'[r].pc \in {"creating", "waitLaunch"}
                   \/ /\ req'[r].pc = "idle"
                      /\ stats'.failedRequests = stats.failedRequests + 1
          /\ ReturnsExisting(r)
                => /\ req'[r].tab \in SeqToSet(tabs)
                   /\ Len(tabs') >= maxTabs
                   /\ stats'.tabsCreated = stats.tabsCreated]_vars

\* a call creates a tab while the pool, below capacity all along, has an
\* idle tab
C34_Witness ==
    \E r \in Requests :
        /\ req[r].pc = "creating"
        /\ \A q \in Requests \ {r} : req[q].pc = "idle"
        /\ stats.failedRequests = 0
        /\ disconnectCount = 0
        /\ Len(tabs) < maxTabs
        /\ \E t \in SeqToSet(tabs) : IdleInPool(t)

\* C35: the restart budget is one for the lifetime of the service:
\* browserRestartCount equals stats.browserRestarts and never exceeds
\* maxBrowserRestarts, no step resets or lowers it (a successful launch
\* leaves it as it is), and a restart timer is armed only together with
\* its increment.
C35_LifetimeRestartBudget ==
    /\ [](/\ browserRestartCount = stats.browserRestarts
          /\ browserRestartCount <= maxBrowserRestarts
          /\ timers <= browserRestartCount)
    /\ [][/\ browserRestartCount' >= browserRestartCount
          /\ engineCounter' > engineCounter
                => browserRestartCount' = browserRestartCount
          /\ timers' > timers
                => /\ timers' = timers + 1
                   /\ browserRestartCount' = browserRestartCount + 1]_vars

\* every restart of the budget has been used, the last one has launched
\* an engine, and the count stands
C35_Witness ==
    /\ browserRestartCount = maxBrowserRestarts
    /\ engineCounter = maxBrowserRestarts + 1
    /\ liveEngines # {}
    /\ timers = 0

\* the launches that fail in this step
FailedLaunches ==
    IF engineCounter' = engineCounter
    THEN pendingLaunches \ pendingLaunches' ELSE {}

\* initializeBrowser is called in this step: by the restart timer, or by
\* the createNewTab of a call that goes on to wait for a launch
InitializeBrowserCalled ==
    \/ timers' < timers
    \/ \E r \in Requests :
          req[r].pc # "waitLaunch" /\ req'[r].pc = "waitLaunch"

MonotonicCounters ==
    {"tabsCreated", "tabsClosed", "totalRequests", "successfulRequests",
     "failedRequests", "browserRestarts"}

\* C37: tabsCreated, tabsClosed, totalRequests, successfulRequests,
\* failedRequests and browserRestarts never decrease in any step, engine
\* disconnects, restarts and shutdown included.
C37_CountersNeverDecrease ==
    [][\A f \in MonotonicCounters : stats'[f] >= stats[f]]_vars

\* requests were served and failed, the engine was restarted, and a
\* shutdown has closed the engine, with every counter still standing
C37_Witness ==
    /\ \E s \in ShutdownCalls : sd[s].pc = "done" /\ sd[s].eng # 0
    /\ stats.browserRestarts > 0
    /\ stats.tabsCreated > 0
    /\ stats.tabsClosed > 0
    /\ stats.totalRequests = MaxRequests
    /\ stats.failedRequests > 0

\* C38: retryWithBackoff(fn, maxRetries) invokes fn at most maxRetries + 1
\* times; it returns the value of the first invocation that succeeds and
\* invokes fn no more; when every invocation fails it throws the error of
\* the last one, after maxRetries + 1 invocations; and it sleeps between
\* two invocations only, never after the last.
C38_RetryWithBackoff ==
    /\ retry.calls = Len(retry.log) + (IF retry.pc = "calling" THEN 1 ELSE 0)
    /\ retry.calls <= retry.maxRetries + 1 \/ retry.calls = 0
    /\ \A k \in 1..(Len(retry.log) - 1) : ~retry.log[k].ok
    /\ retry.pc = "returned"
          => /\ retry.log[Len(retry.log)].ok
             /\ retry.result = retry.log[Len(retry.log)].val
             /\ retry.sleeps = retry.calls - 1
    /\ retry.pc = "thrown"
          => /\ \A k \in 1..Len(retry.log) : ~retry.log[k].ok
             /\ retry.calls = (IF retry.maxRetries >= 0
                                THEN retry.maxRetries + 1 ELSE 0)
             /\ retry.calls > 0
                   => /\ retry.lastError = retry.log[Len(retry.log)].val
                      /\ retry.sleeps = retry.calls - 1
             /\ retry.calls = 0 => retry.lastError = 0 /\ retry.sleeps = 0
    /\ retry.pc = "sleeping" => retry.calls <= retry.maxRetries
    /\ retry.pc = "calling" => retry.sleeps = retry.calls - 1

\* every invocation failed and the error of the last one, which differs
\* from the one before, is thrown
C38_Witness ==
    /\ retry.pc = "thrown"
    /\ retry.maxRetries = RetryBound
    /\ retry.calls = RetryBound + 1
    /\ retry.lastError = 2
    /\ retry.log[RetryBound].val = 1
====
